---- MODULE Spec2Model ----
(***************************************************************************)
(* css_inliner: a model of src/css_inliner.py.                             *)
(*                                                                         *)
(* Text is modelled character by character: a Python str is a sequence of  *)
(* one-character strings, so that split, strip, splitlines, replace and    *)
(* join are computed as Python computes them.  An identifier is one or     *)
(* more letters; every character that is not one of the special            *)
(* characters below is a letter.                                           *)
(***************************************************************************)
EXTENDS Naturals, Sequences, FiniteSets

VARIABLES
    pc,            \* position in main(), or in the function under study
    run,           \* 1: first run of the tool, 2: a run on the first run's output
    input,         \* the file main() read (as written on disk)
    soup,          \* the BeautifulSoup tree
    declarations,  \* main: declarations (the rule fragments)
    processed,     \* main: processed_declarations
    inlined,       \* main: inlined_css_declarations
    pseudo,        \* main: pseudo_style_declarations
    queried,       \* every selector handed to soup.select, in call order
    output,        \* the file main() wrote
    out1,          \* the file the first run wrote
    arg,           \* function specifications: the argument(s)
    idx,           \* function specifications: loop position / call count
    ret            \* function specifications: the result

vars == <<pc, run, input, soup, declarations, processed, inlined, pseudo,
          queried, output, out1, arg, idx, ret>>

----------------------------------------------------------------------------
(* Python str primitives on character sequences *)

\* str.strip() / isspace(): the whitespace characters of the model
IsWS(ch) == ch \in {" ", "\n"}

RECURSIVE LStrip(_)
LStrip(s) ==
    IF s = <<>> THEN <<>>
    ELSE IF IsWS(Head(s)) THEN LStrip(Tail(s)) ELSE s

RECURSIVE RStrip(_)
RStrip(s) ==
    IF s = <<>> THEN <<>>
    ELSE IF IsWS(s[Len(s)]) THEN RStrip(SubSeq(s, 1, Len(s) - 1)) ELSE s

\* str.strip()
Strip(s) == RStrip(LStrip(s))

RECURSIVE SplitFrom(_, _, _)
SplitFrom(s, ch, cur) ==
    IF s = <<>> THEN <<cur>>
    ELSE IF Head(s) = ch THEN <<cur>> \o SplitFrom(Tail(s), ch, <<>>)
    ELSE SplitFrom(Tail(s), ch, Append(cur, Head(s)))

\* str.split(ch): k occurrences of ch give k+1 pieces, empty ones included
Split(s, ch) == SplitFrom(s, ch, <<>>)

\* str.splitlines(): a final line break opens no further line
SplitLines(s) ==
    LET pieces == Split(s, "\n")
    IN  IF pieces[Len(pieces)] = <<>>
        THEN SubSeq(pieces, 1, Len(pieces) - 1) ELSE pieces

RECURSIVE Join(_, _)
\* sep.join(items)
Join(items, sep) ==
    IF items = <<>> THEN <<>>
    ELSE IF Len(items) = 1 THEN items[1]
    ELSE items[1] \o sep \o Join(Tail(items), sep)

\* str.replace(ch, '')
Remove(s, ch) == SelectSeq(s, LAMBDA c : c # ch)

RECURSIVE RStripCh(_, _)
\* str.rstrip(ch)
RStripCh(s, ch) ==
    IF s = <<>> THEN <<>>
    ELSE IF s[Len(s)] = ch THEN RStripCh(SubSeq(s, 1, Len(s) - 1), ch) ELSE s

\* ch in s
Contains(s, ch) == \E i \in 1..Len(s) : s[i] = ch

\* tuple(map(f, items))
MapSeq(F(_), items) == [i \in 1..Len(items) |-> F(items[i])]

RECURSIVE Chain(_)
\* itertools.chain(*items)
Chain(items) == IF items = <<>> THEN <<>> ELSE Head(items) \o Chain(Tail(items))

\* all sequences over S of length at most n
SeqsUpTo(S, n) == UNION {[1..k -> S] : k \in 0..n}

----------------------------------------------------------------------------
(* The pure functions of the module *)

\* _add_closing_tag
_add_closing_tag(declaration) == Strip(declaration \o <<"}">>)

\* mutant: the semicolons of a line are kept
format_keeping_semicolons(css_text) ==
    Join(MapSeq(LAMBDA item : item \o <<";">>, SplitLines(Strip(css_text))), <<" ">>)

\* format_css_content_for_inline
format_css_content_for_inline(css_text) ==
    LET css_content_items == SplitLines(Strip(css_text))
        formatted_css_items ==
            MapSeq(LAMBDA item : Remove(item, ";") \o <<";">>, css_content_items)
    IN  Join(formatted_css_items, <<" ">>)

\* Tag.string: the single text child of a tag, None unless it has exactly one
NoneVal == <<"None">>
TagString(tag) == IF Len(tag.children) = 1 THEN tag.children[1] ELSE NoneVal

\* divide_declarations_from_style_tags, once every tag.string is a str
divide_declarations_from_style_tags(style_tags) ==
    LET individual_declerations ==
            MapSeq(LAMBDA tag : MapSeq(_add_closing_tag, Split(TagString(tag), "}")),
                   style_tags)
    IN  SelectSeq(Chain(individual_declerations), LAMBDA x : Strip(x) # <<"}">>)

\* line 88 raises AttributeError ('NoneType' has no attribute 'split')
SplitRaises(style_tags) ==
    \E i \in 1..Len(style_tags) : TagString(style_tags[i]) = NoneVal

----------------------------------------------------------------------------
(* The CSS parser the module calls (cssutils, CSSParser(raiseExceptions=True)),
   on the fragment grammar of the model:
       fragment    ::= head "{" declaration (";" declaration)* "}"
       head        ::= "@" ident  |  selector ("," selector)*
       selector    ::= ident | ident ":" ident | ":" ident
       declaration ::= ident ":" ident          (an empty one is skipped)
   with whitespace allowed around every part.  Any other non-empty text raises
   xml.dom.SyntaxErr.  selectorText and style.cssText are the parser's own
   serialisation: selectors joined by ", ", declarations written "name: value"
   and joined by ";\n" with no final semicolon. *)

Specials == {"{", "}", ":", ";", ",", " ", "\n", "@"}

IsIdent(s) == s # <<>> /\ \A i \in 1..Len(s) : s[i] \notin Specials

IsSelector(s) ==
    LET p == Split(s, ":")
    IN  \/ Len(p) = 1 /\ IsIdent(p[1])
        \/ Len(p) = 2 /\ IsIdent(p[2]) /\ (p[1] = <<>> \/ IsIdent(p[1]))

IsDeclaration(s) ==
    LET p == Split(s, ":")
    IN  Len(p) = 2 /\ IsIdent(Strip(p[1])) /\ IsIdent(Strip(p[2]))

SerialiseDeclaration(s) ==
    LET p == Split(s, ":") IN Strip(p[1]) \o <<":", " ">> \o Strip(p[2])

\* parser.parseString(declaration): raises, or the rule objects of the sheet
parseString(text) ==
    LET s == Strip(text)
        wellBraced == /\ Len(Split(s, "{")) = 2
                      /\ Len(Split(s, "}")) = 2
                      /\ s[Len(s)] = "}"
        head == Strip(Split(s, "{")[1])
        body == Split(Split(s, "{")[2], "}")[1]
        decls == SelectSeq(MapSeq(Strip, Split(body, ";")), LAMBDA d : d # <<>>)
        declsOK == \A i \in 1..Len(decls) : IsDeclaration(decls[i])
        isAt == head # <<>> /\ head[1] = "@" /\ IsIdent(Tail(head))
        sels == MapSeq(Strip, Split(head, ","))
        selsOK == \A i \in 1..Len(sels) : IsSelector(sels[i])
    IN  IF s = <<>> THEN [raises |-> FALSE, rules |-> <<>>]
        ELSE IF ~wellBraced \/ ~declsOK \/ ~(isAt \/ selsOK)
        THEN [raises |-> TRUE, rules |-> <<>>]
        ELSE [raises |-> FALSE,
              rules |-> << [hasSelectorText |-> ~isAt,
                            selectorText |-> IF isAt THEN <<>>
                                             ELSE Join(sels, <<",", " ">>),
                            cssText |-> Join(MapSeq(SerialiseDeclaration, decls),
                                             <<";", "\n">>)] >>]

----------------------------------------------------------------------------
(* Python dict: insertion-ordered, as a sequence of [key, val] entries *)

DictHas(d, k) == \E i \in 1..Len(d) : d[i].key = k

DictIndex(d, k) == CHOOSE i \in 1..Len(d) : d[i].key = k

DictGet(d, k) == d[DictIndex(d, k)].val

\* d.setdefault(k, v)
DictSetDefault(d, k, v) ==
    IF DictHas(d, k) THEN d ELSE Append(d, [key |-> k, val |-> v])

\* d[k] = v
DictSet(d, k, v) ==
    IF DictHas(d, k) THEN [d EXCEPT ![DictIndex(d, k)].val = v]
    ELSE Append(d, [key |-> k, val |-> v])

DictKeys(d) == [i \in 1..Len(d) |-> d[i].key]

----------------------------------------------------------------------------
(* process_css_declarations *)

\* mutant: a rule replaces the declarations already recorded for its selector
ProcessRule_Overwrite(css_declarations, css_dict) ==
    IF ~css_dict.hasSelectorText THEN css_declarations
    ELSE DictSet(css_declarations, css_dict.selectorText,
                 << format_css_content_for_inline(css_dict.cssText) >>)

\* lines 110-119: one rule object of a parsed fragment
ProcessRule(css_declarations, css_dict) ==
    IF ~css_dict.hasSelectorText THEN css_declarations   \* AttributeError: continue
    ELSE LET css_selector == css_dict.selectorText
             formatted_css_items == format_css_content_for_inline(css_dict.cssText)
             d == DictSetDefault(css_declarations, css_selector, <<>>)
         IN  DictSet(d, css_selector,
                     Append(DictGet(d, css_selector), formatted_css_items))

RECURSIVE ProcessRules(_, _)
ProcessRules(css_declarations, rules) ==
    IF rules = <<>> THEN css_declarations
    ELSE ProcessRules(ProcessRule(css_declarations, Head(rules)), Tail(rules))

\* mutant: the first syntax error ends the processing of the fragments
ProcessDeclaration_StopAtFailure(acc, declaration) ==
    IF acc.failed_declaration # <<>> THEN acc
    ELSE IF parseString(declaration).raises
    THEN [acc EXCEPT !.failed_declaration = Append(@, declaration)]
    ELSE [acc EXCEPT !.successful_declaration =
                         ProcessRules(@, parseString(declaration).rules)]

\* lines 102-119: one iteration of the loop over the fragments
ProcessDeclaration(acc, declaration) ==
    LET parsed_css == parseString(declaration)
    IN  IF parsed_css.raises
        THEN [acc EXCEPT !.failed_declaration = Append(@, declaration)]
        ELSE [acc EXCEPT !.successful_declaration =
                             ProcessRules(@, parsed_css.rules)]

EmptyProcessed == [successful_declaration |-> <<>>, failed_declaration |-> <<>>]

RECURSIVE ProcessFrom(_, _)
ProcessFrom(acc, decls) ==
    IF decls = <<>> THEN acc
    ELSE ProcessFrom(ProcessDeclaration(acc, Head(decls)), Tail(decls))

process_css_declarations(decls) == ProcessFrom(EmptyProcessed, decls)

----------------------------------------------------------------------------
(* inline_css_declarations *)

RECURSIVE InlineFrom(_, _)
InlineFrom(result, items) ==
    IF items = <<>> THEN result
    ELSE LET selector == Head(items).key
             split_selectors == MapSeq(Strip, Split(selector, ","))
             joined_declarations == Join(Head(items).val, <<" ">>)
         IN  InlineFrom(DictSet(result, split_selectors, joined_declarations),
                        Tail(items))

inline_css_declarations(css_declarations) == InlineFrom(<<>>, css_declarations)

----------------------------------------------------------------------------
(* The document tree.  soup = [hasHead, head, body, elems]: head and body hold
   the style tags found in <head> and outside it, in document order; elems are
   the other elements.  A style tag is [orig, children] (orig: it was in the
   parsed file); an element is [tag, cls, style] with
   style = [kind |-> "absent" | "str" | "list", val |-> its token(s)]. *)

Absent == [kind |-> "absent", val |-> <<>>]
Str(s) == [kind |-> "str", val |-> <<s>>]
List(tokens) == [kind |-> "list", val |-> tokens]

\* soup.find_all("style")
find_all_style(sp) == sp.head \o sp.body

\* soup.select(selector): a type selector matches the elements of that tag;
\* the result is in document order
select(sp, selector) ==
    SelectSeq([i \in 1..Len(sp.elems) |-> i],
              LAMBDA i : selector = <<sp.elems[i].tag>>)

\* "not previous_style_attr": None, '' and [] are falsy
Falsy(attr) ==
    \/ attr.kind = "absent"
    \/ attr.kind = "str" /\ attr.val[1] = <<>>
    \/ attr.kind = "list" /\ attr.val = <<>>

\* mutant: the candidate is put before the existing value
NewStyleAttr_CandidateFirst(previous_style_attr, inline_style) ==
    IF Falsy(previous_style_attr)
    THEN Str(RStripCh(inline_style, ";"))
    ELSE Str(RStripCh(Join(<<inline_style>> \o previous_style_attr.val,
                           <<";", " ">>), ";"))

\* lines 143-155: the new style attribute of one matched item
NewStyleAttr(previous_style_attr, inline_style) ==
    IF Falsy(previous_style_attr)
    THEN Str(RStripCh(inline_style, ";"))
    ELSE IF previous_style_attr.kind = "list"
    THEN Str(RStripCh(Join(previous_style_attr.val \o <<inline_style>>,
                           <<";", " ">>), ";"))
    ELSE Str(RStripCh(Join(<<previous_style_attr.val[1], inline_style>>,
                           <<";", " ">>), ";"))

RECURSIVE ApplyToItems(_, _, _)
\* lines 142-155: the loop over found_styled_items
ApplyToItems(elems, items, inline_style) ==
    IF items = <<>> THEN elems
    ELSE ApplyToItems(
             [elems EXCEPT ![Head(items)].style = NewStyleAttr(@, inline_style)],
             Tail(items), inline_style)

RECURSIVE apply_selectors_to_elements_as_inline_css(_, _, _)
apply_selectors_to_elements_as_inline_css(sp, no_pseudo_selectors, inline_style) ==
    IF no_pseudo_selectors = <<>> THEN sp
    ELSE apply_selectors_to_elements_as_inline_css(
             [sp EXCEPT !.elems = ApplyToItems(@, select(sp, Head(no_pseudo_selectors)),
                                               inline_style)],
             Tail(no_pseudo_selectors), inline_style)

\* mutant: every selector of the group is kept
NoPseudoSelectors_Unfiltered(selectors) == selectors

\* lines 198-200 and 203-205: the two filters of main's loop
PseudoSelectors(selectors) == SelectSeq(selectors, LAMBDA x : Contains(x, ":"))
NoPseudoSelectors(selectors) == SelectSeq(selectors, LAMBDA x : ~Contains(x, ":"))

RECURSIVE MainLoop(_, _)
\* lines 196-211: st = [soup, pseudo, queried]
MainLoop(st, items) ==
    IF items = <<>> THEN st
    ELSE LET selectors == Head(items).key
             inline_style == Head(items).val
             pseudo_selectors == PseudoSelectors(selectors)
             no_pseudo_selectors == NoPseudoSelectors(selectors)
             ps == DictSetDefault(st.pseudo, pseudo_selectors, inline_style)
         IN  IF no_pseudo_selectors = <<>>
             THEN MainLoop([st EXCEPT !.pseudo = ps], Tail(items))
             ELSE MainLoop(
                      [soup |-> apply_selectors_to_elements_as_inline_css(
                                    st.soup, no_pseudo_selectors, inline_style),
                       pseudo |-> ps,
                       queried |-> st.queried \o no_pseudo_selectors],
                      Tail(items))

\* mutant: only the style tags of the head are removed
_remove_style_tags_from_head(sp) ==
    [sp EXCEPT !.head = SelectSeq(@, LAMBDA t : ~t.orig)]

\* _remove_style_tags_from_soup: every tag of style_tags leaves the tree
_remove_style_tags_from_soup(sp) ==
    [sp EXCEPT !.head = SelectSeq(@, LAMBDA t : ~t.orig),
               !.body = SelectSeq(@, LAMBDA t : ~t.orig)]

\* mutant: no style tag is appended when nothing failed to parse
insert_unprocessed_declarations_if_any(sp, failed_declaration) ==
    IF sp.hasHead /\ failed_declaration # <<>>
    THEN [sp EXCEPT !.head = Append(@, [orig |-> FALSE,
                                        children |-> failed_declaration])]
    ELSE sp

\* insert_unprocessed_declarations
insert_unprocessed_declarations(sp, failed_declaration) ==
    LET leftover_style_tag == [orig |-> FALSE, children |-> failed_declaration]
    IN  IF sp.hasHead THEN [sp EXCEPT !.head = Append(@, leftover_style_tag)]
        ELSE sp

\* str(soup) of one attribute value: a token list is written space-joined
AttrText(attr) ==
    IF attr.kind = "list" THEN Str(Join(attr.val, <<" ">>)) ELSE attr

\* write_soup_output: str(soup); the text children of a tag are written one
\* after the other
write_soup_output(sp) ==
    [hasHead |-> sp.hasHead,
     head |-> MapSeq(LAMBDA t : Chain(t.children), sp.head),
     body |-> MapSeq(LAMBDA t : Chain(t.children), sp.body),
     elems |-> MapSeq(LAMBDA e : [e EXCEPT !.style = AttrText(@)], sp.elems)]

\* get_soup_from_html_file: <style></style> has no child, any other style tag
\* has its text as its one child
StyleTag(text) ==
    [orig |-> TRUE, children |-> IF text = <<>> THEN <<>> ELSE <<text>>]

get_soup_from_html_file(file) ==
    [hasHead |-> file.hasHead,
     head |-> MapSeq(StyleTag, file.head),
     body |-> MapSeq(StyleTag, file.body),
     elems |-> file.elems]

----------------------------------------------------------------------------
(* main(): the input files, and one action per stage of the pipeline *)

\* the rules an input style block is made of
RuleA1 == <<"a", "{", "c", ":", "r", "}">>                      \* a{c:r}
RuleA2 == <<"a", "{", "d", ":", "s", ";", "}">>                 \* a{d:s;}
RuleB  == <<"b", "{", "c", ":", "r", ";", "d", ":", "s", "}">>  \* b{c:r;d:s}
RuleG  == <<"a", ",", "b", ":", "h", "{", "c", ":", "r", "}">>  \* a,b:h{c:r}
RuleP  == <<"a", ":", "h", "{", "d", ":", "s", "}">>            \* a:h{d:s}
RuleF1 == <<"a", "{", "c", ":", "}">>                           \* a{c:}   (no value)
RuleF2 == <<"b", "{", "r", "}">>                                \* b{r}    (no colon)
RuleAt == <<"@", "f", "{", "c", ":", "r", "}">>                 \* @f{c:r} (an at-rule)

Rules == {RuleA1, RuleA2, RuleB, RuleG, RuleP, RuleF1, RuleF2, RuleAt}

\* the number of rules of an input document
MaxRules == 3

NL == <<"\n">>

\* the style-block texts a sequence of rules is laid out in
Layouts(rs) ==
    IF rs = <<>> THEN { <<>>, << <<>> >>, << NL >> }
    ELSE { << Join(rs, NL) >> }
         \cup (IF Len(rs) >= 2
               THEN { << Head(rs) \o NL, Join(Tail(rs), NL) >> } ELSE {})

Elem(tag, cls, style) == [tag |-> tag, cls |-> cls, style |-> style]

StyleET == <<"e", ":", " ", "t">>
StyleFU == <<"f", ":", " ", "u">>

Bodies ==
    { <<>>,
      << Elem("a", "x", Absent) >>,
      << Elem("a", "x", Str(StyleET)), Elem("b", "y", Str(StyleFU)) >>,
      << Elem("b", "x", Str(<<>>)), Elem("a", "y", Absent),
         Elem("a", "x", Str(StyleET \o <<";">>)) >> }

File(hasHead, inHead, texts, elems) ==
    [hasHead |-> hasHead,
     head |-> IF inHead THEN texts ELSE <<>>,
     body |-> IF inHead THEN <<>> ELSE texts,
     elems |-> elems]

InputFiles ==
    { File(h, w, texts, b) :
        h \in BOOLEAN, w \in BOOLEAN,
        texts \in UNION { Layouts(rs) : rs \in SeqsUpTo(Rules, MaxRules) },
        b \in Bodies }

NoFile == [hasHead |-> FALSE, head |-> <<>>, body |-> <<>>, elems |-> <<>>]

Init ==
    /\ pc = "start"
    /\ run = 1
    /\ input \in { f \in InputFiles : f.hasHead \/ f.head = <<>> }
    /\ soup = get_soup_from_html_file(input)
    /\ declarations = <<>>
    /\ processed = EmptyProcessed
    /\ inlined = <<>>
    /\ pseudo = <<>>
    /\ queried = <<>>
    /\ output = NoFile
    /\ out1 = NoFile
    /\ arg = <<>>
    /\ idx = 0
    /\ ret = <<>>

\* lines 184-187
Divide ==
    /\ pc = "start"
    /\ IF SplitRaises(find_all_style(soup))
       THEN pc' = "crashed" /\ UNCHANGED declarations
       ELSE /\ pc' = "divided"
            /\ declarations' = divide_declarations_from_style_tags(find_all_style(soup))
    /\ UNCHANGED <<run, input, soup, processed, inlined, pseudo, queried,
                   output, out1, arg, idx, ret>>

\* lines 189-191
Process ==
    /\ pc = "divided"
    /\ pc' = "processed"
    /\ processed' = process_css_declarations(declarations)
    /\ UNCHANGED <<run, input, soup, declarations, inlined, pseudo, queried,
                   output, out1, arg, idx, ret>>

\* lines 192-194
Inline ==
    /\ pc = "processed"
    /\ pc' = "inlined"
    /\ inlined' = inline_css_declarations(processed.successful_declaration)
    /\ UNCHANGED <<run, input, soup, declarations, processed, pseudo, queried,
                   output, out1, arg, idx, ret>>

\* lines 196-211
Apply ==
    /\ pc = "inlined"
    /\ pc' = "applied"
    /\ LET st == MainLoop([soup |-> soup, pseudo |-> <<>>, queried |-> <<>>], inlined)
       IN  soup' = st.soup /\ pseudo' = st.pseudo /\ queried' = st.queried
    /\ UNCHANGED <<run, input, declarations, processed, inlined,
                   output, out1, arg, idx, ret>>

\* lines 213-216
Residual ==
    /\ pc = "applied"
    /\ pc' = "residual"
    /\ soup' = insert_unprocessed_declarations(_remove_style_tags_from_soup(soup),
                                               processed.failed_declaration)
    /\ UNCHANGED <<run, input, declarations, processed, inlined, pseudo, queried,
                   output, out1, arg, idx, ret>>

\* lines 218-219
Write ==
    /\ pc = "residual"
    /\ pc' = "done"
    /\ output' = write_soup_output(soup)
    /\ out1' = IF run = 1 THEN write_soup_output(soup) ELSE out1
    /\ UNCHANGED <<run, input, soup, declarations, processed, inlined, pseudo,
                   queried, arg, idx, ret>>

\* the tool is run again, on the file it wrote (lines 181-182 of the next run)
Rerun ==
    /\ pc = "done"
    /\ run = 1
    /\ run' = 2
    /\ pc' = "start"
    /\ input' = output
    /\ soup' = get_soup_from_html_file(output)
    /\ declarations' = <<>>
    /\ processed' = EmptyProcessed
    /\ inlined' = <<>>
    /\ pseudo' = <<>>
    /\ queried' = <<>>
    /\ output' = NoFile
    /\ UNCHANGED <<out1, arg, idx, ret>>

Next == Divide \/ Process \/ Inline \/ Apply \/ Residual \/ Write \/ Rerun

Spec == Init /\ [][Next]_vars

----------------------------------------------------------------------------
(* The functions on their own: each specification draws the arguments of one
   function from a bounded set and calls it. *)

\* what the variables of main() hold while one function is studied
Idle ==
    /\ run = 1
    /\ declarations = <<>>
    /\ processed = EmptyProcessed
    /\ inlined = <<>>
    /\ pseudo = <<>>
    /\ queried = <<>>
    /\ output = NoFile
    /\ out1 = NoFile

(* divide_declarations_from_style_tags *)

SplitAlphabet == {"a", "{", "}", " "}

\* the number of characters of the style tags' text
MaxSplitLen == 6

\* the text t as one style tag (k = 0), or cut into two after k characters
TagsOf(t, k) ==
    IF k = 0 THEN << StyleTag(t) >>
    ELSE << StyleTag(SubSeq(t, 1, k)), StyleTag(SubSeq(t, k + 1, Len(t))) >>

InitSplit ==
    /\ pc = "divide:call"
    /\ \E t \in SeqsUpTo(SplitAlphabet, MaxSplitLen) \ {<<>>} :
          \E k \in 0..(Len(t) - 1) : arg = TagsOf(t, k)
    /\ ret = <<>>
    /\ idx = 0
    /\ input = NoFile
    /\ soup = get_soup_from_html_file(NoFile)
    /\ Idle

CallDivide ==
    /\ pc = "divide:call"
    /\ pc' = "divide:return"
    /\ ret' = divide_declarations_from_style_tags(arg)
    /\ UNCHANGED <<run, input, soup, declarations, processed, inlined, pseudo,
                   queried, output, out1, arg, idx>>

SpecSplit == InitSplit /\ [][CallDivide]_vars

(* format_css_content_for_inline *)

FormatAlphabet == {"c", ";", " ", "\n"}

\* the number of characters of the declaration-block text
MaxFormatLen == 5

InitFormat ==
    /\ pc = "format:call"
    /\ arg \in SeqsUpTo(FormatAlphabet, MaxFormatLen)
    /\ ret = <<>>
    /\ idx = 0
    /\ input = NoFile
    /\ soup = get_soup_from_html_file(NoFile)
    /\ Idle

CallFormat ==
    /\ pc = "format:call"
    /\ pc' = "format:return"
    /\ ret' = format_css_content_for_inline(arg)
    /\ UNCHANGED <<run, input, soup, declarations, processed, inlined, pseudo,
                   queried, output, out1, arg, idx>>

SpecFormat == InitFormat /\ [][CallFormat]_vars

(* process_css_declarations, one iteration of its loop per step *)

\* the number of fragments handed to the Rule Parser, and the fragments
MaxFrags == 4
Fragments == Rules \ {RuleP}

InitParse ==
    /\ pc = "parse:loop"
    /\ run = 1
    /\ declarations \in SeqsUpTo(Fragments, MaxFrags)
    /\ processed = EmptyProcessed
    /\ idx = 0
    /\ arg = <<>>
    /\ ret = <<>>
    /\ input = NoFile
    /\ soup = get_soup_from_html_file(NoFile)
    /\ inlined = <<>>
    /\ pseudo = <<>>
    /\ queried = <<>>
    /\ output = NoFile
    /\ out1 = NoFile

\* lines 102-119, the fragment declarations[idx + 1]
ParseStep ==
    /\ pc = "parse:loop"
    /\ idx < Len(declarations)
    /\ idx' = idx + 1
    /\ processed' = ProcessDeclaration(processed, declarations[idx + 1])
    /\ UNCHANGED <<pc, run, input, soup, declarations, inlined, pseudo, queried,
                   output, out1, arg, ret>>

\* lines 120-123
ParseReturn ==
    /\ pc = "parse:loop"
    /\ idx = Len(declarations)
    /\ pc' = "parse:return"
    /\ ret' = processed
    /\ UNCHANGED <<run, input, soup, declarations, processed, inlined, pseudo,
                   queried, output, out1, arg, idx>>

SpecParse == InitParse /\ [][ParseStep \/ ParseReturn]_vars

(* apply_selectors_to_elements_as_inline_css, called repeatedly on one tree *)

StyleShapes ==
    { Absent, Str(<<>>), Str(StyleET), List(<<>>), List(<<StyleET, StyleFU>>) }

ApplyElems ==
    { Elem("a", "x", st) : st \in StyleShapes } \cup { Elem("b", "y", Absent) }

\* the selector tuples and inline style strings of a call
ApplySelectors == { << <<"a">> >>, << <<"b">> >>, << <<"b">>, <<"a">> >> }
ApplyStyles == { <<>>, <<"c", ":", " ", "r", ";">>, <<"d", ":", " ", "s", ";">> }

\* the number of elements of the tree, and of calls made on it
MaxApplyElems == 2
MaxCalls == 2

InitApply ==
    /\ pc = "apply:call"
    /\ \E es \in SeqsUpTo(ApplyElems, MaxApplyElems) :
          /\ soup = [hasHead |-> FALSE, head |-> <<>>, body |-> <<>>, elems |-> es]
          /\ input = [hasHead |-> FALSE, head |-> <<>>, body |-> <<>>, elems |-> es]
    /\ arg = <<>>
    /\ idx = 0
    /\ ret = <<>>
    /\ Idle

CallApply ==
    /\ pc = "apply:call"
    /\ idx < MaxCalls
    /\ \E sels \in ApplySelectors, style \in ApplyStyles :
          /\ soup' = apply_selectors_to_elements_as_inline_css(soup, sels, style)
          /\ arg' = Append(arg, [sels |-> sels, style |-> style])
    /\ idx' = idx + 1
    /\ UNCHANGED <<pc, run, input, declarations, processed, inlined, pseudo,
                   queried, output, out1, ret>>

SpecApply == InitApply /\ [][CallApply]_vars

----------------------------------------------------------------------------
(* Vocabulary of the properties *)

IsSubstring(sub, s) ==
    /\ Len(sub) <= Len(s)
    /\ \E i \in 0..(Len(s) - Len(sub)) : SubSeq(s, i + 1, i + Len(sub)) = sub

Count(s, ch) == Len(SelectSeq(s, LAMBDA c : c = ch))

\* the elements of s, each at its first occurrence
FirstOccurrences(s) ==
    LET firsts == SelectSeq([i \in 1..Len(s) |-> i],
                            LAMBDA i : \A j \in 1..(i - 1) : s[j] # s[i])
    IN  [k \in 1..Len(firsts) |-> s[firsts[k]]]

Raises(d) == parseString(d).raises

\* the rule objects of fragment d whose selector and declarations can be read
ReadableRules(d) ==
    IF Raises(d) THEN <<>>
    ELSE SelectSeq(parseString(d).rules, LAMBDA r : r.hasSelectorText)

Unreadable(d) ==
    /\ ~Raises(d)
    /\ \E i \in 1..Len(parseString(d).rules) : ~parseString(d).rules[i].hasSelectorText

\* the individual selectors of a selector text
SelectorsOf(selectorText) == MapSeq(Strip, Split(selectorText, ","))

\* element i of the tree is matched by the selector
Matched(sp, i, selector) == \E k \in 1..Len(select(sp, selector)) : select(sp, selector)[k] = i

----------------------------------------------------------------------------
(* C1: for every parsed rule whose selector group has a non-empty pseudo
   subset, a run on a document that has a head writes that rule (its pseudo
   selectors and its declarations) into the text of a style block of the
   output's head. *)
C1_PseudoRulesWrittenBack ==
    (pc = "done" /\ input.hasHead) =>
        \A g \in 1..Len(inlined) :
            \A j \in 1..Len(inlined[g].key) :
                Contains(inlined[g].key[j], ":") =>
                    \E t \in 1..Len(output.head) :
                        /\ IsSubstring(inlined[g].key[j], output.head[t])
                        /\ IsSubstring(RStripCh(inlined[g].val, ";"), output.head[t])

----------------------------------------------------------------------------
(* C2: inline application only ever uses plain selectors.  The selectors
   handed to soup.select are exactly the members without ':' of the selector
   groups, in order; no element is added, removed or has its tag or class
   changed; and an element matched by no plain selector of any group keeps
   the style attribute of the input (so groups with an empty plain subset
   change nothing). *)
AllSelectors == Chain(DictKeys(inlined))

MatchedByPlain(i) ==
    \E k \in 1..Len(AllSelectors) :
        /\ ~Contains(AllSelectors[k], ":")
        /\ Matched(soup, i, AllSelectors[k])

C2_OnlyPlainSelectorsApplied ==
    pc \in {"applied", "residual", "done"} =>
        /\ \A k \in 1..Len(queried) : ~Contains(queried[k], ":")
        /\ queried = SelectSeq(AllSelectors, LAMBDA x : ~Contains(x, ":"))
        /\ Len(soup.elems) = Len(input.elems)
        /\ \A i \in 1..Len(soup.elems) :
              /\ soup.elems[i].tag = input.elems[i].tag
              /\ soup.elems[i].cls = input.elems[i].cls
              /\ ~MatchedByPlain(i) => soup.elems[i].style = input.elems[i].style

C2_Witness ==
    /\ pc = "done"
    /\ run = 1
    /\ \E g \in 1..Len(inlined) :
          PseudoSelectors(inlined[g].key) # <<>> /\ NoPseudoSelectors(inlined[g].key) # <<>>
    /\ \E g \in 1..Len(inlined) : NoPseudoSelectors(inlined[g].key) = <<>>
    /\ \E i \in 1..Len(soup.elems) :
          ~MatchedByPlain(i) /\ soup.elems[i].style = Str(StyleFU)
    /\ \E i \in 1..Len(soup.elems) :
          MatchedByPlain(i) /\ soup.elems[i].style # input.elems[i].style

----------------------------------------------------------------------------
(* C3: the style value an application gives a matched element.
   ClaimedStyle is the claim as stated: the candidate c with trailing ';'
   stripped when the attribute is absent, existing + "; " + c (stripped)
   whenever it is a string, the tokens and c joined by "; " (stripped) when
   it is a token list.  AmendedStyle treats the empty string as the absent
   attribute. *)
ClaimedStyle(prev, c) ==
    IF prev.kind = "absent" THEN Str(RStripCh(c, ";"))
    ELSE IF prev.kind = "str"
    THEN Str(RStripCh(prev.val[1] \o <<";", " ">> \o c, ";"))
    ELSE Str(RStripCh(Join(Append(prev.val, c), <<";", " ">>), ";"))

AmendedStyle(prev, c) ==
    IF prev.kind = "str" /\ prev.val[1] = <<>> THEN Str(RStripCh(c, ";"))
    ELSE ClaimedStyle(prev, c)

\* the applications (selector, candidate) of the calls made, in order
Applications ==
    Chain(MapSeq(LAMBDA call : MapSeq(LAMBDA sel : [sel |-> sel, style |-> call.style],
                                      call.sels),
                 arg))

RECURSIVE StyleAfter(_, _, _, _)
\* the style of an element of the given tag after the applications
StyleAfter(version, style, tag, apps) ==
    IF apps = <<>> THEN style
    ELSE StyleAfter(version,
                    IF Head(apps).sel # <<tag>> THEN style
                    ELSE IF version = "claimed" THEN ClaimedStyle(style, Head(apps).style)
                    ELSE AmendedStyle(style, Head(apps).style),
                    tag, Tail(apps))

\* C3 as stated: every element's style is the claimed merge of its original
\* style with the candidates of the applications that matched it, in order
C3_ClaimedMerge ==
    pc = "apply:call" =>
        \A i \in 1..Len(soup.elems) :
            soup.elems[i].style =
                StyleAfter("claimed", input.elems[i].style, soup.elems[i].tag, Applications)

\* C3 amended: the same, an empty string attribute being treated as absent
C3_AmendedMerge ==
    pc = "apply:call" =>
        \A i \in 1..Len(soup.elems) :
            soup.elems[i].style =
                StyleAfter("amended", input.elems[i].style, soup.elems[i].tag, Applications)

C3_Witness ==
    /\ pc = "apply:call"
    /\ Len(arg) = 2
    /\ arg[1].style # arg[2].style
    /\ Len(soup.elems) = 2
    /\ input.elems[1].style = Str(StyleET)
    /\ input.elems[2].style = List(<<StyleET, StyleFU>>)
    /\ \A i \in 1..2 : \A k \in 1..2 :
          \E n \in 1..Len(arg[k].sels) : Matched(soup, i, arg[k].sels[n])

----------------------------------------------------------------------------
(* C4: end to end, when every rule is fully inlineable *)

\* no fragment fails to parse and no selector contains ':'
AllInlineable ==
    /\ processed.failed_declaration = <<>>
    /\ \A g \in 1..Len(processed.successful_declaration) :
          ~Contains(processed.successful_declaration[g].key, ":")

\* the output has each rule's declarations in the style attribute of each
\* element the rule's selectors match
RulesInlined ==
    \A n \in 1..Len(declarations) :
        \A m \in 1..Len(ReadableRules(declarations[n])) :
            LET rule == ReadableRules(declarations[n])[m]
                text == RStripCh(format_css_content_for_inline(rule.cssText), ";")
            IN  \A k \in 1..Len(SelectorsOf(rule.selectorText)) :
                    \A i \in 1..Len(output.elems) :
                        Matched(soup, i, SelectorsOf(rule.selectorText)[k]) =>
                            /\ output.elems[i].style.kind = "str"
                            /\ IsSubstring(text, output.elems[i].style.val[1])

\* C4 as stated: the declarations are inlined and no style tag remains in
\* the head of the output
C4_NoStyleTagRemains ==
    (pc = "done" /\ AllInlineable) => (RulesInlined /\ output.head = <<>>)

\* C4 amended: the declarations are inlined, no style tag of the input
\* remains, and a head holds exactly one style tag, the new one, with no text
C4_EmptyResidualTag ==
    (pc = "done" /\ AllInlineable) =>
        /\ RulesInlined
        /\ output.body = <<>>
        /\ output.head = IF input.hasHead THEN << <<>> >> ELSE <<>>

C4_Witness ==
    /\ pc = "done"
    /\ run = 1
    /\ AllInlineable
    /\ input.hasHead
    /\ Len(input.head) = 2
    /\ Len(processed.successful_declaration) = 2
    /\ \E i \in 1..Len(output.elems) :
          /\ input.elems[i].style = Str(StyleET)
          /\ output.elems[i].style # input.elems[i].style

----------------------------------------------------------------------------
(* C5: a second run on the output of a first run completes and leaves the
   document unchanged: run(run(d)) = run(d). *)
C5_SecondRunUnchanged ==
    /\ run = 2 => pc # "crashed"
    /\ (run = 2 /\ pc = "done") => output = out1

----------------------------------------------------------------------------
(* C6: after a run every style tag of the input has left the tree; with a
   head, the head holds exactly one style tag, the new one, whose text
   children are the fragments that failed to parse, verbatim and in their
   original order (so the file holds them one after the other); without a
   head no style tag is added and the run still ends normally. *)
FailedFragments == SelectSeq(declarations, Raises)

C6_ResidualStyleTag ==
    pc \in {"residual", "done"} =>
        /\ \A t \in 1..Len(find_all_style(soup)) : ~find_all_style(soup)[t].orig
        /\ soup.body = <<>>
        /\ input.hasHead =>
              /\ Len(soup.head) = 1
              /\ soup.head[1].children = FailedFragments
        /\ ~input.hasHead => soup.head = <<>>
        /\ pc = "done" =>
              /\ output.body = <<>>
              /\ output.head = IF input.hasHead THEN << Chain(FailedFragments) >>
                               ELSE <<>>

C6_Witness ==
    /\ pc = "done"
    /\ run = 1
    /\ input.hasHead
    /\ Len(input.head) = 2
    /\ Len(soup.head) = 1
    /\ Len(soup.head[1].children) = 2
    /\ soup.head[1].children[1] # soup.head[1].children[2]

----------------------------------------------------------------------------
(* C7: in the Rule Parser, a fragment whose parse raises a syntax error is
   appended verbatim to the failed list and contributes nothing to the
   Declaration Record; the loop goes on, so the failed list is exactly the
   raising fragments seen so far, in input order, and every fragment has been
   handled when the function returns.  A fragment whose rule has no readable
   selector is recorded nowhere: the record is the one the other fragments
   alone produce. *)
C7_FailedFragmentsKept ==
    pc \in {"parse:loop", "parse:return"} =>
        LET seen == SubSeq(declarations, 1, idx)
            good == SelectSeq(seen, LAMBDA d : ~Raises(d) /\ ~Unreadable(d))
        IN  /\ processed.failed_declaration = SelectSeq(seen, Raises)
            /\ processed.successful_declaration =
                   process_css_declarations(good).successful_declaration
            /\ pc = "parse:return" => (idx = Len(declarations) /\ ret = processed)

C7_Witness ==
    /\ pc = "parse:return"
    /\ Len(declarations) = 4
    /\ Raises(declarations[1])
    /\ ReadableRules(declarations[2]) # <<>>
    /\ Unreadable(declarations[3])
    /\ Raises(declarations[4])
    /\ declarations[1] # declarations[4]
    /\ Len(ret.successful_declaration) = 1

----------------------------------------------------------------------------
(* C8: the Block Splitter.  A style-block text is made of top-level rules
   when its braces are well nested and nothing but whitespace follows its
   last top-level '}' ; its top-level rules are the '}' that close a block
   opened at depth 0. *)
Prefix(text, i) == SubSeq(text, 1, i)

WellNested(text) ==
    /\ \A i \in 1..Len(text) : Count(Prefix(text, i), "}") <= Count(Prefix(text, i), "{")
    /\ Count(text, "}") = Count(text, "{")

TopLevelRules(text) ==
    Cardinality({ i \in 1..Len(text) :
                    /\ text[i] = "}"
                    /\ Count(Prefix(text, i), "}") = Count(Prefix(text, i), "{") })

MadeOfRules(text) ==
    /\ WellNested(text)
    /\ Strip(text) # <<>> => Strip(text)[Len(Strip(text))] = "}"

\* no '}' closes a block nested in another
Flat(text) ==
    \A i \in 1..Len(text) :
        Count(Prefix(text, i), "{") <= Count(Prefix(text, i), "}") + 1

RECURSIVE SumRules(_)
SumRules(tags) ==
    IF tags = <<>> THEN 0
    ELSE TopLevelRules(TagString(Head(tags))) + SumRules(Tail(tags))

FragmentsWellFormed ==
    /\ \A n \in 1..Len(ret) :
          /\ ret[n] # <<>>
          /\ ret[n][Len(ret[n])] = "}"
          /\ Strip(ret[n]) # <<"}">>
    /\ ret = Chain(MapSeq(LAMBDA tag : divide_declarations_from_style_tags(<<tag>>), arg))

\* C8 as stated: style tags whose texts hold n top-level rules in all yield
\* exactly n fragments, each non-empty, ending in '}' and not a bare "}", the
\* tags' fragments following one another in tag order
C8_OneFragmentPerRule ==
    (pc = "divide:return" /\ \A t \in 1..Len(arg) : MadeOfRules(TagString(arg[t]))) =>
        /\ Len(ret) = SumRules(arg)
        /\ FragmentsWellFormed

\* the same for texts without nested blocks
C8_FlatOneFragmentPerRule ==
    (pc = "divide:return"
        /\ \A t \in 1..Len(arg) : MadeOfRules(TagString(arg[t])) /\ Flat(TagString(arg[t]))) =>
        /\ Len(ret) = SumRules(arg)
        /\ FragmentsWellFormed

----------------------------------------------------------------------------
(* C9: declaration formatting *)

\* the claim as stated: the text is split into lines, each line is stripped,
\* loses every ';' and gets one ';' appended; the lines are joined by a space
ClaimedFormat(text) ==
    Join(MapSeq(LAMBDA line : Remove(Strip(line), ";") \o <<";">>, SplitLines(text)),
         <<" ">>)

\* every formatted declaration of the result ends in exactly one semicolon
\* and the result contains no newline
SemicolonTerminated(text, nItems) ==
    /\ ~Contains(text, "\n")
    /\ Count(text, ";") = nItems
    /\ nItems > 0 => text[Len(text)] = ";"

C9_LinesStripped ==
    pc = "format:return" =>
        /\ ret = ClaimedFormat(arg)
        /\ SemicolonTerminated(ret, Len(SplitLines(arg)))

\* C9 amended: the text is stripped as a whole and then split into lines; a
\* line is not stripped again.  The result is the lines in order, each without
\* its ';' and closed by one ';', with one space between two of them.
C9_TextStrippedOnce ==
    pc = "format:return" =>
        LET lines == SplitLines(Strip(arg))
            items == Split(ret, ";")
        IN  /\ SemicolonTerminated(ret, Len(lines))
            /\ Len(items) = Len(lines) + 1
            /\ items[Len(items)] = <<>>
            /\ \A n \in 1..Len(lines) :
                  items[n] = (IF n = 1 THEN <<>> ELSE <<" ">>) \o Remove(lines[n], ";")

C9_Witness ==
    /\ pc = "format:return"
    /\ Len(SplitLines(Strip(arg))) = 2
    /\ Contains(SplitLines(Strip(arg))[1], ";")
    /\ Head(SplitLines(Strip(arg))[2]) = " "
    /\ ret # ClaimedFormat(arg)

----------------------------------------------------------------------------
(* C10: the Declaration Record after any sequence of fragments.  Its keys
   are the selector texts of the rules read so far, each once, in the order
   of their first rule; the list of a key holds the formatted declarations
   of the rules of that selector text, one element per rule, in encounter
   order; and a step of the parser never removes or moves an entry or a list
   element. *)
RulesSeen == Chain(MapSeq(ReadableRules, SubSeq(declarations, 1, idx)))

C10_RecordContents ==
    LET rec == processed.successful_declaration
    IN  /\ DictKeys(rec) = FirstOccurrences(MapSeq(LAMBDA r : r.selectorText, RulesSeen))
        /\ \A g \in 1..Len(rec) :
              rec[g].val =
                  MapSeq(LAMBDA r : format_css_content_for_inline(r.cssText),
                         SelectSeq(RulesSeen, LAMBDA r : r.selectorText = rec[g].key))

IsPrefix(s, t) == Len(s) <= Len(t) /\ SubSeq(t, 1, Len(s)) = s

C10_RecordGrowth ==
    LET rec == processed.successful_declaration
    IN  /\ Len(rec) <= Len(rec')
        /\ \A g \in 1..Len(rec) :
              /\ rec'[g].key = rec[g].key
              /\ IsPrefix(rec[g].val, rec'[g].val)

C10_DeclarationRecord == [](C10_RecordContents) /\ [][C10_RecordGrowth]_vars

C10_Witness ==
    /\ pc = "parse:return"
    /\ Len(declarations) = 4
    /\ Len(ret.successful_declaration) = 2
    /\ Len(ret.successful_declaration[1].val) = 2
    /\ ret.successful_declaration[1].val[1] # ret.successful_declaration[1].val[2]
    /\ Len(ReadableRules(declarations[2])) = 1
    /\ ReadableRules(declarations[2])[1].selectorText = ret.successful_declaration[2].key
    /\ Len(ReadableRules(declarations[3])) = 1
    /\ ReadableRules(declarations[3])[1].selectorText = ret.successful_declaration[1].key

====
